---- MODULE Spec2Model ----
(***************************************************************************)
(* State-machine model of src/game.py: a text adventure in which one       *)
(* Player runs a sequence of random encounters, each of which may call the *)
(* round-based combat_encounter, followed by final_resolution and summary. *)
(*                                                                         *)
(* The program is sequential.  pc is the position of the single thread of  *)
(* control; one action is the code between two positions: a function body  *)
(* from the input it reads up to its return or to the next call, or one    *)
(* part of a loop iteration.                                               *)
(*                                                                         *)
(* Four specifications share the actions:                                  *)
(*   Spec         whole runs, from Player construction to the summary;     *)
(*   SpecFirst    a campaign of one mission, observed, with the lines that *)
(*                choose() rejects;                                        *)
(*   SpecMission  the last mission of a campaign, from the player the      *)
(*                campaign can have at that point, observed;               *)
(*   SpecFinal    final_resolution and summary, observed.                  *)
(* In an observed run every step also records what it did: its name (op),  *)
(* the option choose() returned (choice), every call of roll() it made     *)
(* with the percentage passed and the outcome drawn (rolls), the special   *)
(* it applied (effect) and the draw of final_resolution (roll_val).        *)
(*                                                                         *)
(* choose() is modelled on the line typed: a line it accepts gives the     *)
(* index the calling step uses, a line it rejects shows the prompt again   *)
(* (Reprompt), and a line on which int() raises ends the program           *)
(* (ChooseValueError, pc = "crashed").                                     *)
(*                                                                         *)
(* Left out: the player's name, all narration (slow_print), and the local  *)
(* `rounds` of combat_encounter, which is only narrated.                   *)
(***************************************************************************)
EXTENDS Integers, Sequences, FiniteSets, TLC

\* ---------------------------------------------------------------- bounds
\* largest number of missions a modelled run asks for
MaxMissions == 2
\* largest number of looted items a player drawn in mid campaign carries
MaxExtra == 2

\* ------------------------------------------------------ program constants
\* main() accepts a mission count between 1 and MissionsLimit
MissionsLimit == 10
\* Player.__init__ / Player.heal: hit points start at and are capped at MaxHP
MaxHP == 3

Max(a, b) == IF a >= b THEN a ELSE b
Min(a, b) == IF a <= b THEN a ELSE b

\* `item in inventory`
Has(inv, item) == \E k \in 1..Len(inv) : inv[k] = item

\* index of the first occurrence of item in inv (0 when absent)
FirstIndex(inv, item) ==
  IF Has(inv, item) THEN CHOOSE k \in 1..Len(inv) :
                           inv[k] = item /\ \A j \in 1..(k-1) : inv[j] # item
  ELSE 0

\* variant: every occurrence is dropped
Remove_every(inv, item) == SelectSeq(inv, LAMBDA x : x # item)

\* list.remove(item): drops the first occurrence
Remove(inv, item) ==
  LET k == FirstIndex(inv, item)
  IN [j \in 1..(Len(inv)-1) |-> IF j < k THEN inv[j] ELSE inv[j+1]]

\* number of occurrences of item in inv
Count(inv, item) == Cardinality({k \in 1..Len(inv) : inv[k] = item})

\* ------------------------------------------------------------------ data
ROLES ==
  ("Soldier"  :> [inventory |-> <<"Standard Rifle", "Combat Knife">>, accuracy_bonus |-> 0]) @@
  ("Sniper"   :> [inventory |-> <<"Sniper Rifle", "Camouflage">>,     accuracy_bonus |-> 15]) @@
  ("Medic"    :> [inventory |-> <<"Pistol", "Medical Kit">>,          accuracy_bonus |-> -5]) @@
  ("Engineer" :> [inventory |-> <<"Pistol", "Toolkit">>,              accuracy_bonus |-> -2]) @@
  ("Intelligence Officer" :>
                 [inventory |-> <<"Silenced Pistol", "Encrypted Radio">>, accuracy_bonus |-> -1])

RoleNames == DOMAIN ROLES

ENCOUNTERS == {"village_checkpoint", "mountain_pass", "abandoned_base",
               "night_raze", "convoy_ambush"}

\* the list random.choice draws the post-combat loot from
LootTable == {"Ammo", "Med Pack", "Intel Documents", "Assault Rifle", "Rations"}

\* ---------------------------------------------------------------- Player
NewPlayer(role_name) ==
  [role |-> role_name,
   hp |-> MaxHP,
   inventory |-> ROLES[role_name].inventory,
   accuracy_bonus |-> ROLES[role_name].accuracy_bonus,
   mission_heals |-> IF role_name = "Medic" THEN 1 ELSE 0,
   sniper_special_used |-> FALSE,
   alive |-> TRUE,
   missions_completed |-> 0]

\* variant: death only below zero
take_damage_below_zero(p, amount) ==
  LET h == p.hp - amount
  IN [p EXCEPT !.hp = h, !.alive = IF h < 0 THEN FALSE ELSE p.alive]

take_damage(p, amount) ==
  LET h == p.hp - amount
  IN [p EXCEPT !.hp = h, !.alive = IF h <= 0 THEN FALSE ELSE p.alive]

\* variant: no cap
heal_unclamped(p, amount) == [p EXCEPT !.hp = p.hp + amount]

heal(p, amount) == [p EXCEPT !.hp = Min(MaxHP, p.hp + amount)]

append(p, item) == [p EXCEPT !.inventory = Append(p.inventory, item)]

\* ------------------------------------------------------------------ roll
\* one call of roll(pct) at the site `name` with outcome b
R(name, pct, b) == [name |-> name, pct |-> pct, hit |-> b]

\* random.random() is in [0,1): roll(pct) cannot succeed for pct <= 0 and
\* cannot fail for pct >= 100
Possible(x) == (x.hit => x.pct > 0) /\ (~x.hit => x.pct < 100)

\* the outcomes roll(pct) can have at the site `name`
Draw(name, pct) == {x \in {R(name, pct, TRUE), R(name, pct, FALSE)} : Possible(x)}

Rolled(log, name) == \E k \in 1..Len(log) : log[k].name = name
RolledHit(log, name) == \E k \in 1..Len(log) : log[k].name = name /\ log[k].hit
NumRolled(log, name) == Cardinality({k \in 1..Len(log) : log[k].name = name})

\* ---------------------------------------------------------------- choose
\* A line read by input() is a sequence of characters.  "^2" stands for the
\* one character U+00B2 SUPERSCRIPT TWO: str.isdigit() is true of it, and
\* int() raises ValueError on it.
DecimalDigits == {"0", "1", "2", "3", "4", "5", "6", "7"}
OtherDigits == {"^2"}
Whitespace == {" "}

DigitValue ==
  ("0" :> 0) @@ ("1" :> 1) @@ ("2" :> 2) @@ ("3" :> 3) @@
  ("4" :> 4) @@ ("5" :> 5) @@ ("6" :> 6) @@ ("7" :> 7)

\* the lines a player is taken to type at a prompt
Lines ==
  {<<>>, <<" ">>, <<"a">>, <<"-", "1">>, <<"2", "a">>,
   <<"0">>, <<"1">>, <<"2">>, <<"3">>, <<"4">>, <<"5">>, <<"6">>, <<"7">>,
   <<" ", "2">>, <<"6", " ">>, <<"0", "3">>, <<"1", "0">>,
   <<"^2">>, <<"1", "^2">>}

\* str.strip()
strip(s) ==
  LET keep == {k \in 1..Len(s) : s[k] \notin Whitespace}
  IN IF keep = {} THEN <<>>
     ELSE SubSeq(s, CHOOSE k \in keep : \A j \in keep : k <= j,
                    CHOOSE k \in keep : \A j \in keep : k >= j)

\* str.isdigit()
isdigit(s) == Len(s) > 0 /\ \A k \in 1..Len(s) : s[k] \in DecimalDigits \cup OtherDigits

\* whether int(s) raises ValueError, for s with isdigit(s)
int_raises(s) == \E k \in 1..Len(s) : s[k] \notin DecimalDigits

\* int(s), for s made of decimal digits
RECURSIVE int(_)
int(s) ==
  IF Len(s) = 0 THEN 0
  ELSE 10 * int(SubSeq(s, 1, Len(s) - 1)) + DigitValue[s[Len(s)]]

\* one iteration of the loop of choose() with n options, on the line typed:
\* it returns idx, goes round again, or int() raises
choose(line, n) ==
  LET c == strip(line)
  IN IF isdigit(c)
     THEN IF int_raises(c) THEN [kind |-> "ValueError", idx |-> -1]
          ELSE IF 1 <= int(c) /\ int(c) <= n
               THEN [kind |-> "return", idx |-> int(c) - 1]
               ELSE [kind |-> "reprompt", idx |-> -1]
     ELSE [kind |-> "reprompt", idx |-> -1]

\* the indices choose() can return for n options
Choices(n) == {choose(line, n).idx : line \in {x \in Lines : choose(x, n).kind = "return"}}

\* the resolvers offer three options, the combat round six
EncounterChoices == Choices(3)
ActionChoices == Choices(6)

\* ------------------------------------------------------------- encounters
\* What a resolver can do for one choice, as a set with one element for each
\* way its rolls can fall: the player afterwards, the rolls made, and either
\* the difficulty of the combat it calls (combat > 0, whose result it
\* returns) or the value it returns itself (combat = 0).
Returns(p, log, ret) == [player |-> p, rolls |-> log, combat |-> 0, ret |-> ret]
Fights(p, log, d)    == [player |-> p, rolls |-> log, combat |-> d, ret |-> FALSE]

\* variant: forcing entry meets the resistance of an ambush
village_checkpoint_easy_entry(p, choice) ==
  IF choice = 0 THEN
    IF p.role = "Intelligence Officer"
    THEN {Returns(append(p, "Med Pack"), <<>>, TRUE)}
    ELSE {IF x.hit THEN Returns(append(p, "Med Pack"), <<x>>, TRUE)
                   ELSE Fights(p, <<x>>, 1) : x \in Draw("talk", 65)}
  ELSE IF choice = 1 THEN
    {IF x.hit THEN Fights(p, <<x>>, 2)
              ELSE Returns(append(p, "Ammo"), <<x>>, TRUE) : x \in Draw("ambush", 40)}
  ELSE {Fights(p, <<>>, 2)}

village_checkpoint(p, choice) ==
  IF choice = 0 THEN
    IF p.role = "Intelligence Officer"
    THEN {Returns(append(p, "Med Pack"), <<>>, TRUE)}
    ELSE {IF x.hit THEN Returns(append(p, "Med Pack"), <<x>>, TRUE)
                   ELSE Fights(p, <<x>>, 1) : x \in Draw("talk", 65)}
  ELSE IF choice = 1 THEN
    {IF x.hit THEN Fights(p, <<x>>, 2)
              ELSE Returns(append(p, "Ammo"), <<x>>, TRUE) : x \in Draw("ambush", 40)}
  ELSE {Fights(p, <<>>, 3)}

\* variant: the Sniper who spots the movement still collects the rations
mountain_pass_eyes_then_rations(p, choice) ==
  IF choice = 0 THEN
    LET onward(log) == {Returns(append(p, "Rations"), log \o <<y>>, TRUE) :
                          y \in Draw("sniper_fire", 30)}
    IN IF p.role = "Sniper"
       THEN UNION {onward(<<x>>) : x \in Draw("sharp_eyes", 50)}
       ELSE onward(<<>>)
  ELSE IF choice = 1 THEN
    IF Has(p.inventory, "Encrypted Radio") \/ p.role = "Intelligence Officer"
    THEN {Returns(p, <<>>, TRUE)}
    ELSE {Fights(p, <<>>, 2)}
  ELSE
    LET trap(log) == {IF y.hit THEN Returns(take_damage(p, 1), log \o <<y>>,
                                            take_damage(p, 1).alive)
                               ELSE Returns(p, log \o <<y>>, TRUE) :
                        y \in Draw("trap", 40)}
    IN IF p.role = "Engineer"
       THEN UNION {IF x.hit THEN {Returns(append(p, "IED Components"), <<x>>, TRUE)}
                            ELSE trap(<<x>>) : x \in Draw("disarm", 70)}
       ELSE trap(<<>>)

\* choice 0: the statement `return combat_encounter(player, difficulty=2)` is
\* swallowed by a comment (lines 359-362), so the body of `if roll(30):` is
\* only its narration and control continues with the Rations branch.
mountain_pass(p, choice) ==
  IF choice = 0 THEN
    LET onward(log) == {Returns(append(p, "Rations"), log \o <<y>>, TRUE) :
                          y \in Draw("sniper_fire", 30)}
    IN IF p.role = "Sniper"
       THEN UNION {IF x.hit THEN {Returns(p, <<x>>, TRUE)} ELSE onward(<<x>>) :
                     x \in Draw("sharp_eyes", 50)}
       ELSE onward(<<>>)
  ELSE IF choice = 1 THEN
    IF Has(p.inventory, "Encrypted Radio") \/ p.role = "Intelligence Officer"
    THEN {Returns(p, <<>>, TRUE)}
    ELSE {Fights(p, <<>>, 2)}
  ELSE
    LET trap(log) == {IF y.hit THEN Returns(take_damage(p, 1), log \o <<y>>,
                                            take_damage(p, 1).alive)
                               ELSE Returns(p, log \o <<y>>, TRUE) :
                        y \in Draw("trap", 40)}
    IN IF p.role = "Engineer"
       THEN UNION {IF x.hit THEN {Returns(append(p, "IED Components"), <<x>>, TRUE)}
                            ELSE trap(<<x>>) : x \in Draw("disarm", 70)}
       ELSE trap(<<>>)

\* variant: the perimeter sweep is a 50% roll for the supplies
abandoned_base_sweep_rolls(p, choice) ==
  IF choice = 0 THEN
    {IF x.hit THEN Returns(append(p, "Assault Rifle"), <<x>>, TRUE)
              ELSE Fights(p, <<x>>, 3) : x \in Draw("cache", 50)}
  ELSE IF choice = 1 THEN
    {Returns(IF x.hit THEN append(p, "Handful of Ammo") ELSE p, <<x>>, TRUE) :
       x \in Draw("sweep", 50)}
  ELSE {Fights(p, <<>>, 2)}

abandoned_base(p, choice) ==
  IF choice = 0 THEN
    {IF x.hit THEN Returns(append(p, "Assault Rifle"), <<x>>, TRUE)
              ELSE Fights(p, <<x>>, 3) : x \in Draw("cache", 50)}
  ELSE IF choice = 1 THEN {Returns(append(p, "Handful of Ammo"), <<>>, TRUE)}
  ELSE {Fights(p, <<>>, 2)}

\* variant: when reinforcements do not come the raid is called off as failed
night_raze_called_off(p, choice) ==
  IF choice = 0 THEN {Fights(p, <<>>, 3)}
  ELSE IF choice = 1 THEN
    IF p.role \in {"Sniper", "Intelligence Officer"}
    THEN {Returns(append(p, "Intel Documents"), <<>>, TRUE)}
    ELSE {IF x.hit THEN Returns(append(p, "Intel Documents"), <<x>>, TRUE)
                   ELSE Fights(p, <<x>>, 3) : x \in Draw("stealth", 55)}
  ELSE
    {IF x.hit THEN Returns(p, <<x>>, TRUE)
              ELSE Returns(p, <<x>>, FALSE) : x \in Draw("reinforcements", 50)}

night_raze(p, choice) ==
  IF choice = 0 THEN {Fights(p, <<>>, 3)}
  ELSE IF choice = 1 THEN
    IF p.role \in {"Sniper", "Intelligence Officer"}
    THEN {Returns(append(p, "Intel Documents"), <<>>, TRUE)}
    ELSE {IF x.hit THEN Returns(append(p, "Intel Documents"), <<x>>, TRUE)
                   ELSE Fights(p, <<x>>, 3) : x \in Draw("stealth", 55)}
  ELSE
    {IF x.hit THEN Returns(p, <<x>>, TRUE)
              ELSE Fights(p, <<x>>, 2) : x \in Draw("reinforcements", 50)}

\* variant: the airstrike answers the call only half the time
convoy_ambush_call_unanswered(p, choice) ==
  IF choice = 0 THEN {Fights(p, <<>>, 3)}
  ELSE IF choice = 1 THEN
    LET wounded(log) == {Returns(take_damage(p, 1), log \o <<y>>, take_damage(p, 1).alive) :
                           y \in Draw("graze", 40)}
    IN IF p.role = "Soldier"
       THEN UNION {IF x.hit THEN {Returns(append(p, "Looted Supplies"), <<x>>, TRUE)}
                            ELSE wounded(<<x>>) : x \in Draw("flank", 60)}
       ELSE wounded(<<>>)
  ELSE
    IF Has(p.inventory, "Encrypted Radio") \/ p.role = "Intelligence Officer"
    THEN {IF x.hit THEN Returns(p, <<x>>, TRUE)
                   ELSE Fights(p, <<x>>, 2) : x \in Draw("airstrike", 50)}
    ELSE {Fights(p, <<>>, 2)}

convoy_ambush(p, choice) ==
  IF choice = 0 THEN {Fights(p, <<>>, 3)}
  ELSE IF choice = 1 THEN
    LET wounded(log) == {Returns(take_damage(p, 1), log \o <<y>>, take_damage(p, 1).alive) :
                           y \in Draw("graze", 40)}
    IN IF p.role = "Soldier"
       THEN UNION {IF x.hit THEN {Returns(append(p, "Looted Supplies"), <<x>>, TRUE)}
                            ELSE wounded(<<x>>) : x \in Draw("flank", 60)}
       ELSE wounded(<<>>)
  ELSE
    IF Has(p.inventory, "Encrypted Radio") \/ p.role = "Intelligence Officer"
    THEN {Returns(p, <<>>, TRUE)}
    ELSE {Fights(p, <<>>, 2)}

\* encounter_menu lines 273-282
Resolve(enc, p, choice) ==
  CASE enc = "village_checkpoint" -> village_checkpoint(p, choice)
    [] enc = "mountain_pass"      -> mountain_pass(p, choice)
    [] enc = "abandoned_base"     -> abandoned_base(p, choice)
    [] enc = "night_raze"         -> night_raze(p, choice)
    [] enc = "convoy_ambush"      -> convoy_ambush(p, choice)

\* ----------------------------------------------------------------- combat
\* One way an iteration of the round loop can go: `next` is "continue" (back
\* to the loop guard), "true" or "false" (a return from inside the loop);
\* `effect` names the special that was applied ("none" when the local `used`
\* stays False or the action was not Special/Item).
Round(p, ehp, log, u, nxt) ==
  [player |-> p, enemy_hp |-> ehp, rolls |-> log, effect |-> u, next |-> nxt]

\* lines 604-607 (after the variant)
\* variant: the adjustments of shoot-left and shoot-center are exchanged
base_hit_chance_left_best(p, d, action) ==
  LET base == 50 + p.accuracy_bonus - d * 5
  IN IF action = 1 THEN base - 5
     ELSE IF action = 0 THEN base + 5
     ELSE IF action = 2 THEN base - 2
     ELSE base

base_hit_chance(p, d, action) ==
  LET base == 50 + p.accuracy_bonus - d * 5
  IN IF action = 1 THEN base + 5
     ELSE IF action = 0 THEN base - 5
     ELSE IF action = 2 THEN base - 2
     ELSE base

\* line 609
hit_chance(p, d, action) == Max(5, Min(95, base_hit_chance(p, d, action)))

\* variant: the lethal hit also takes the hit point of a normal hit
enemy_counterattack_lethal_after_damage(p, d, ehp, log, u) ==
  LET enemy_acc == 40 + d * 15
      fires(pre) ==
        UNION {IF e.hit
               THEN {IF l.hit
                     THEN Round([take_damage(p, 1) EXCEPT !.alive = FALSE], ehp,
                                pre \o <<e, l>>, u, "false")
                     ELSE Round(take_damage(p, 1), ehp, pre \o <<e, l>>, u, "continue") :
                       l \in Draw("lethal", 3)}
               ELSE {Round(p, ehp, pre \o <<e>>, u, "continue")} :
                 e \in Draw("enemy_hit", enemy_acc)}
  IN IF p.role = "Soldier"
     THEN UNION {IF g.hit THEN {Round(p, ehp, log \o <<g>>, u, "continue")}
                          ELSE fires(log \o <<g>>) : g \in Draw("dodge", 20)}
     ELSE fires(log)

\* lines 620-632, entered with enemy_hp > 0
enemy_counterattack(p, d, ehp, log, u) ==
  LET enemy_acc == 40 + d * 15
      fires(pre) ==
        UNION {IF e.hit
               THEN {IF l.hit
                     THEN Round([p EXCEPT !.alive = FALSE], ehp, pre \o <<e, l>>, u, "false")
                     ELSE Round(take_damage(p, 1), ehp, pre \o <<e, l>>, u, "continue") :
                       l \in Draw("lethal", 3)}
               ELSE {Round(p, ehp, pre \o <<e>>, u, "continue")} :
                 e \in Draw("enemy_hit", enemy_acc)}
  IN IF p.role = "Soldier"
     THEN UNION {IF g.hit THEN {Round(p, ehp, log \o <<g>>, u, "continue")}
                          ELSE fires(log \o <<g>>) : g \in Draw("dodge", 20)}
     ELSE fires(log)

\* variant: the counterattack is not guarded by the enemy's hit points
shooting_logic_dead_enemy_fires(p, d, ehp, action, log, u) ==
  LET counter(ehp1, log1) == enemy_counterattack(p, d, ehp1, log1, u)
  IN UNION {IF s.hit
            THEN IF Has(p.inventory, "Assault Rifle")
                 THEN UNION {counter(ehp - (IF b.hit THEN 2 ELSE 1), log \o <<s, b>>) :
                               b \in Draw("rifle_damage", 40)}
                 ELSE counter(ehp - 1, log \o <<s>>)
            ELSE counter(ehp, log \o <<s>>) :
              s \in Draw("shot", hit_chance(p, d, action))}

\* lines 603-632
shooting_logic(p, d, ehp, action, log, u) ==
  LET counter(ehp1, log1) ==
        IF ehp1 > 0 THEN enemy_counterattack(p, d, ehp1, log1, u)
                    ELSE {Round(p, ehp1, log1, u, "continue")}
  IN UNION {IF s.hit
            THEN IF Has(p.inventory, "Assault Rifle")
                 THEN UNION {counter(ehp - (IF b.hit THEN 2 ELSE 1), log \o <<s, b>>) :
                               b \in Draw("rifle_damage", 40)}
                 ELSE counter(ehp - 1, log \o <<s>>)
            ELSE counter(ehp, log \o <<s>>) :
              s \in Draw("shot", hit_chance(p, d, action))}

\* variant: a failed flee does not end the round; the enemy counterattacks
flee_without_continue(p, d, ehp) ==
  UNION {IF f.hit
         THEN {Round(p, ehp, <<f>>, "none", "true")}
         ELSE UNION {enemy_counterattack(IF s.hit THEN take_damage(p, 1) ELSE p, d, ehp,
                                         <<f, s>>, "none") :
                       s \in Draw("parting_shot", 10 + d * 10)} :
           f \in Draw("flee", 30 - d * 5)}

\* lines 542-551
flee(p, d, ehp) ==
  UNION {IF f.hit
         THEN {Round(p, ehp, <<f>>, "none", "true")}
         ELSE {Round(IF s.hit THEN take_damage(p, 1) ELSE p, ehp, <<f, s>>,
                     "none", "continue") : s \in Draw("parting_shot", 10 + d * 10)} :
           f \in Draw("flee", 30 - d * 5)}

\* variant: the shot through cover costs two hit points
take_cover_heavy_shot(p, d, ehp) ==
  {Round(IF g.hit THEN take_damage(p, 2) ELSE p,
         IF f.hit THEN ehp - 1 ELSE ehp,
         <<f, g>>, "none", "continue") :
     f \in Draw("return_fire", 20 + d * 10), g \in Draw("glancing_shot", 30 + d * 20)}

\* lines 593-601
take_cover(p, d, ehp) ==
  {Round(IF g.hit THEN take_damage(p, 1) ELSE p,
         IF f.hit THEN ehp - 1 ELSE ehp,
         <<f, g>>, "none", "continue") :
     f \in Draw("return_fire", 20 + d * 10), g \in Draw("glancing_shot", 30 + d * 20)}

\* variant: the enemy retaliates whether or not it is still standing
retaliation_after_kill(p, d, ehp, log, u) ==
  {Round(IF c.hit THEN take_damage(p, 1) ELSE p, ehp, log \o <<c>>, u, "continue") :
     c \in Draw("retaliation", 40 + d * 10)}

\* lines 583-588: after an applied special the enemy, if alive, may retaliate
retaliation(p, d, ehp, log, u) ==
  IF ehp > 0
  THEN {Round(IF c.hit THEN take_damage(p, 1) ELSE p, ehp, log \o <<c>>, u, "continue") :
          c \in Draw("retaliation", 40 + d * 10)}
  ELSE {Round(p, ehp, log, u, "continue")}

\* variant: the Medic's charge is not consumed
special_keeps_charge(p, d, ehp) ==
  IF p.role = "Medic" /\ p.mission_heals > 0
  THEN retaliation(heal(p, 1), d, ehp, <<>>, "medic_heal")
  ELSE IF p.role = "Sniper" /\ ~p.sniper_special_used
  THEN retaliation([p EXCEPT !.sniper_special_used = TRUE], d, 0, <<>>, "sniper_shot")
  ELSE shooting_logic(p, d, ehp, 5, <<>>, "none")

\* lines 554-590; when nothing was used control falls through `if action == 3`
\* into the shooting logic of lines 603-632 with action = 5
special(p, d, ehp) ==
  IF p.role = "Medic" /\ p.mission_heals > 0
  THEN retaliation([heal(p, 1) EXCEPT !.mission_heals = p.mission_heals - 1],
                   d, ehp, <<>>, "medic_heal")
  ELSE IF p.role = "Sniper" /\ ~p.sniper_special_used
  THEN retaliation([p EXCEPT !.sniper_special_used = TRUE], d, 0, <<>>, "sniper_shot")
  ELSE IF Has(p.inventory, "Med Pack")
  THEN retaliation([heal(p, 1) EXCEPT !.inventory = Remove(p.inventory, "Med Pack")],
                   d, ehp, <<>>, "med_pack")
  ELSE IF Has(p.inventory, "Assault Rifle")
  THEN UNION {IF b.hit THEN retaliation(p, d, 0, <<b>>, "rifle_burst")
                       ELSE shooting_logic(p, d, ehp, 5, <<b>>, "none") :
                b \in Draw("burst", 60)}
  ELSE shooting_logic(p, d, ehp, 5, <<>>, "none")

\* the loop body after the prompt (lines 541-632) for the chosen action
combat_round(p, d, ehp, action) ==
  IF action = 4 THEN flee(p, d, ehp)
  ELSE IF action = 5 THEN special(p, d, ehp)
  ELSE IF action = 3 THEN take_cover(p, d, ehp)
  ELSE shooting_logic(p, d, ehp, action, <<>>, "none")

\* ------------------------------------------------------- final resolution
\* variant: the first threshold is compared with <
final_outcome_strict(v) ==
  IF v < 10 THEN "instant_death"
  ELSE IF v <= 55 THEN "home"
  ELSE "injuries"

\* lines 707-717: the branch taken for a draw roll_val
final_outcome(v) ==
  IF v <= 10 THEN "instant_death"
  ELSE IF v <= 55 THEN "home"
  ELSE "injuries"

\* ------------------------------------------------------------------ state
VARIABLES
  pc,                  \* position of control (see the actions)
  player,              \* the Player object
  missions,            \* main(): number of missions asked for
  i,                   \* play_mission_sequence: loop index
  encounter,           \* encounter_menu: encounter_id ("none" outside it)
  success,             \* play_mission_sequence: value returned by encounter_menu
  difficulty,          \* combat_encounter: parameter (0 outside combat)
  enemy_hp,            \* combat_encounter: local (0 until assigned)
  survived_missions,   \* main(): value returned by play_mission_sequence
  survived_home,       \* main(): value returned by final_resolution
  final_hp,            \* summary(): the "Final HP" it prints
  dispatched,          \* history: encounters dispatched so far
  headshot_checks,     \* history: instant-death checks made by this combat
  medic_special_uses,  \* history: Medic special heals applied in this run
  sniper_special_uses, \* history: Sniper guaranteed shots applied in this run
  observed,            \* whether this run records the observations below
  echo,                \* whether this run also records the loop of choose()
  op,                  \* observation: name of the step that led here
  choice,              \* observation: index choose() returned in that step
  rolls,               \* observation: the roll() calls of that step, in order
  effect,              \* observation: special applied by that step
  roll_val,            \* observation: final_resolution's draw (0 = none)
  typed                \* observation: the line choose() did not accept, if any

vars == <<pc, player, missions, i, encounter, success, difficulty, enemy_hp,
          survived_missions, survived_home, final_hp, dispatched,
          headshot_checks, medic_special_uses, sniper_special_uses,
          observed, echo, op, choice, rolls, effect, roll_val, typed>>

campaign_vars == <<missions, i, dispatched>>
special_vars == <<medic_special_uses, sniper_special_uses>>
main_vars == <<survived_missions, survived_home, final_hp>>

\* what a step records of itself
Observe(o, c, log, e) ==
  /\ UNCHANGED <<observed, echo>>
  /\ typed' = <<>>
  /\ IF observed
     THEN op' = o /\ choice' = c /\ rolls' = log /\ effect' = e
     ELSE UNCHANGED <<op, choice, rolls, effect>>

\* no locals are live and nothing has been observed
Idle ==
  /\ encounter = "none"
  /\ success = FALSE
  /\ difficulty = 0
  /\ enemy_hp = 0
  /\ survived_home = FALSE
  /\ final_hp = 0
  /\ headshot_checks = 0
  /\ op = "init"
  /\ choice = -1
  /\ rolls = <<>>
  /\ effect = "none"
  /\ roll_val = 0
  /\ typed = <<>>

\* The state when main() calls play_mission_sequence: the role was picked,
\* Player(name, role) constructed and the mission count read (lines 756-775).
Init ==
  /\ pc = "mission_loop"
  /\ \E role_name \in RoleNames : player = NewPlayer(role_name)
  /\ missions \in 1..Min(MaxMissions, MissionsLimit)
  /\ i = 1
  /\ dispatched = 0
  /\ medic_special_uses = 0
  /\ sniper_special_uses = 0
  /\ survived_missions = FALSE
  /\ observed = FALSE
  /\ echo = FALSE
  /\ Idle

\* variant: the loop runs once more than asked
Dispatch_one_more ==
  /\ pc = "mission_loop"
  /\ i <= missions + 1
  /\ \E enc \in ENCOUNTERS :
       /\ encounter' = enc
       /\ \E log \in (IF player.role = "Intelligence Officer"
                      THEN {<<x>> : x \in Draw("intel_hint", 40)} ELSE {<<>>}) :
            Observe("dispatch", -1, log, "none")
  /\ dispatched' = dispatched + 1
  /\ pc' = "encounter"
  /\ UNCHANGED <<player, missions, i, success, difficulty, enemy_hp, headshot_checks>>
  /\ UNCHANGED <<special_vars, main_vars, roll_val>>

\* lines 664-668 and encounter_menu lines 266-270: the loop draws an
\* encounter, and an Intelligence Officer rolls for the hint
Dispatch ==
  /\ pc = "mission_loop"
  /\ i <= missions
  /\ \E enc \in ENCOUNTERS :
       /\ encounter' = enc
       /\ \E log \in (IF player.role = "Intelligence Officer"
                      THEN {<<x>> : x \in Draw("intel_hint", 40)} ELSE {<<>>}) :
            Observe("dispatch", -1, log, "none")
  /\ dispatched' = dispatched + 1
  /\ pc' = "encounter"
  /\ UNCHANGED <<player, missions, i, success, difficulty, enemy_hp, headshot_checks>>
  /\ UNCHANGED <<special_vars, main_vars, roll_val>>

\* line 688: the loop is exhausted
SequenceReturn ==
  /\ pc = "mission_loop"
  /\ i > missions
  /\ survived_missions' = player.alive
  /\ pc' = "main_after"
  /\ Observe("sequence_return", -1, <<>>, "none")
  /\ UNCHANGED <<player, encounter, success, difficulty, enemy_hp, headshot_checks>>
  /\ UNCHANGED <<campaign_vars, special_vars, survived_home, final_hp, roll_val>>

\* choose() is waiting for a line: called by a resolver with three options
\* (lines 307, 351, 400, 436, 473) or by a combat round with six (line 539)
Prompting == pc \in {"encounter", "combat_prompt"}
NumOptions == IF pc = "encounter" THEN 3 ELSE 6

\* lines 69-78: the line typed is not accepted and the prompt is shown again
Reprompt ==
  /\ Prompting
  /\ \E line \in Lines :
       /\ choose(line, NumOptions).kind = "reprompt"
       /\ IF echo
          THEN /\ op' = "reprompt" /\ choice' = -1 /\ rolls' = <<>> /\ effect' = "none"
               /\ typed' = <<line>>
          ELSE UNCHANGED <<op, choice, rolls, effect, typed>>
  /\ UNCHANGED <<pc, player, encounter, success, difficulty, enemy_hp, headshot_checks>>
  /\ UNCHANGED <<campaign_vars, special_vars, main_vars, roll_val, observed, echo>>

\* line 75: int() raises ValueError; choose() and its callers catch nothing
\* and the entry point (lines 799-803) catches KeyboardInterrupt only, so
\* the program ends there with a traceback
ChooseValueError ==
  /\ Prompting
  /\ \E line \in Lines :
       /\ choose(line, NumOptions).kind = "ValueError"
       /\ typed' = IF echo THEN <<line>> ELSE typed
  /\ pc' = "crashed"
  /\ IF observed
     THEN op' = "value_error" /\ choice' = -1 /\ rolls' = <<>> /\ effect' = "none"
     ELSE UNCHANGED <<op, choice, rolls, effect>>
  /\ UNCHANGED <<player, encounter, success, difficulty, enemy_hp, headshot_checks>>
  /\ UNCHANGED <<campaign_vars, special_vars, main_vars, roll_val, observed, echo>>

\* one resolver body: the choice, its rolls, and either a return to the
\* campaign or a call of combat_encounter; encounter_id is not read again
EncounterStep(enc) ==
  /\ pc = "encounter"
  /\ encounter = enc
  /\ \E c \in EncounterChoices : \E out \in Resolve(enc, player, c) :
       /\ player' = out.player
       /\ Observe(enc, c, out.rolls, "none")
       /\ IF out.combat > 0
          THEN /\ pc' = "combat_start"
               /\ difficulty' = out.combat
               /\ UNCHANGED success
          ELSE /\ pc' = "mission_post"
               /\ success' = out.ret
               /\ UNCHANGED difficulty
  /\ encounter' = "none"
  /\ UNCHANGED <<enemy_hp, headshot_checks>>
  /\ UNCHANGED <<campaign_vars, special_vars, main_vars, roll_val>>

VillageCheckpoint == EncounterStep("village_checkpoint")
MountainPass == EncounterStep("mountain_pass")
AbandonedBase == EncounterStep("abandoned_base")
NightRaze == EncounterStep("night_raze")
ConvoyAmbush == EncounterStep("convoy_ambush")

\* variant: the headshot is dealt as damage equal to the hit points left
CombatStart_as_damage ==
  /\ pc = "combat_start"
  /\ \E h \in Draw("headshot", 10) :
       /\ Observe("combat_start", -1, <<h>>, "none")
       /\ IF h.hit
          THEN /\ player' = take_damage(player, player.hp)
               /\ success' = FALSE
               /\ pc' = "mission_post"
               /\ UNCHANGED enemy_hp
          ELSE /\ enemy_hp' = difficulty
               /\ pc' = "combat_loop"
               /\ UNCHANGED <<player, success>>
  /\ headshot_checks' = headshot_checks + 1
  /\ UNCHANGED <<encounter, difficulty>>
  /\ UNCHANGED <<campaign_vars, special_vars, main_vars, roll_val>>

\* lines 516-526: the instant-death check, then the locals of the loop
CombatStart ==
  /\ pc = "combat_start"
  /\ \E h \in Draw("headshot", 10) :
       /\ Observe("combat_start", -1, <<h>>, "none")
       /\ IF h.hit
          THEN /\ player' = [player EXCEPT !.alive = FALSE]
               /\ success' = FALSE
               /\ pc' = "mission_post"
               /\ UNCHANGED enemy_hp
          ELSE /\ enemy_hp' = difficulty
               /\ pc' = "combat_loop"
               /\ UNCHANGED <<player, success>>
  /\ headshot_checks' = headshot_checks + 1
  /\ UNCHANGED <<encounter, difficulty>>
  /\ UNCHANGED <<campaign_vars, special_vars, main_vars, roll_val>>

\* lines 529-539: the loop guard holds, the round is announced and the
\* action prompt is shown
RoundPrompt ==
  /\ pc = "combat_loop"
  /\ enemy_hp > 0 /\ player.alive
  /\ pc' = "combat_prompt"
  /\ Observe("round_prompt", -1, <<>>, "none")
  /\ UNCHANGED <<player, encounter, success, difficulty, enemy_hp, headshot_checks>>
  /\ UNCHANGED <<campaign_vars, special_vars, main_vars, roll_val>>

\* lines 539-632: the action is read and the round is played
CombatRound ==
  /\ pc = "combat_prompt"
  /\ \E a \in ActionChoices : \E out \in combat_round(player, difficulty, enemy_hp, a) :
       /\ player' = out.player
       /\ enemy_hp' = out.enemy_hp
       /\ Observe("combat_round", a, out.rolls, out.effect)
       /\ medic_special_uses' =
            medic_special_uses + (IF out.effect = "medic_heal" THEN 1 ELSE 0)
       /\ sniper_special_uses' =
            sniper_special_uses + (IF out.effect = "sniper_shot" THEN 1 ELSE 0)
       /\ IF out.next = "continue"
          THEN pc' = "combat_loop" /\ UNCHANGED success
          ELSE pc' = "mission_post" /\ success' = (out.next = "true")
  /\ UNCHANGED <<encounter, difficulty, headshot_checks>>
  /\ UNCHANGED <<campaign_vars, main_vars, roll_val>>

\* lines 634-643: the loop guard fails
CombatEnd ==
  /\ pc = "combat_loop"
  /\ ~(enemy_hp > 0 /\ player.alive)
  /\ IF player.alive
     THEN \E x \in Draw("loot", 50 + difficulty * 10) :
            /\ \E loot \in (IF x.hit THEN LootTable ELSE {"none"}) :
                 player' = IF x.hit THEN append(player, loot) ELSE player
            /\ Observe("combat_end", -1, <<x>>, "none")
            /\ success' = TRUE
     ELSE /\ Observe("combat_end", -1, <<>>, "none")
          /\ success' = FALSE
          /\ UNCHANGED player
  /\ pc' = "mission_post"
  /\ UNCHANGED <<encounter, difficulty, enemy_hp, headshot_checks>>
  /\ UNCHANGED <<campaign_vars, special_vars, main_vars, roll_val>>

\* variant: a player who fell with hit points left is stabilized and pushes on
MissionPost_pushes_on ==
  /\ pc = "mission_post"
  /\ IF ~player.alive /\ player.hp <= 0
     THEN /\ survived_missions' = FALSE
          /\ pc' = "main_after"
          /\ Observe("mission_post", -1, <<>>, "none")
          /\ UNCHANGED <<player, i>>
     ELSE LET p1 == IF success
                    THEN [player EXCEPT !.missions_completed = @ + 1, !.alive = TRUE]
                    ELSE [player EXCEPT !.alive = TRUE]
          IN /\ IF player.role = "Medic"
                THEN \E x \in Draw("rest", 30) :
                       /\ player' = IF x.hit THEN heal(p1, 1) ELSE p1
                       /\ Observe("mission_post", -1, <<x>>, "none")
                ELSE /\ player' = p1
                     /\ Observe("mission_post", -1, <<>>, "none")
             /\ i' = i + 1
             /\ pc' = "mission_loop"
             /\ UNCHANGED survived_missions
  /\ difficulty' = 0
  /\ enemy_hp' = 0
  /\ headshot_checks' = 0
  /\ UNCHANGED <<missions, dispatched, encounter, success>>
  /\ UNCHANGED <<special_vars, survived_home, final_hp, roll_val>>

\* variant: every role rests after a mission
MissionPost_rest_for_all ==
  /\ pc = "mission_post"
  /\ IF ~player.alive
     THEN /\ survived_missions' = FALSE
          /\ pc' = "main_after"
          /\ Observe("mission_post", -1, <<>>, "none")
          /\ UNCHANGED <<player, i>>
     ELSE LET p1 == IF success
                    THEN [player EXCEPT !.missions_completed = @ + 1]
                    ELSE player
          IN /\ \E x \in Draw("rest", 30) :
                  /\ player' = IF x.hit THEN heal(p1, 1) ELSE p1
                  /\ Observe("mission_post", -1, <<x>>, "none")
             /\ i' = i + 1
             /\ pc' = "mission_loop"
             /\ UNCHANGED survived_missions
  /\ difficulty' = 0
  /\ enemy_hp' = 0
  /\ headshot_checks' = 0
  /\ UNCHANGED <<missions, dispatched, encounter, success>>
  /\ UNCHANGED <<special_vars, survived_home, final_hp, roll_val>>

\* lines 670-686: what the campaign does with the encounter's result; the
\* frame of combat_encounter is gone
MissionPost ==
  /\ pc = "mission_post"
  /\ IF ~player.alive
     THEN /\ survived_missions' = FALSE
          /\ pc' = "main_after"
          /\ Observe("mission_post", -1, <<>>, "none")
          /\ UNCHANGED <<player, i>>
     ELSE LET p1 == IF success
                    THEN [player EXCEPT !.missions_completed = @ + 1]
                    ELSE player
          IN /\ IF player.role = "Medic"
                THEN \E x \in Draw("rest", 30) :
                       /\ player' = IF x.hit THEN heal(p1, 1) ELSE p1
                       /\ Observe("mission_post", -1, <<x>>, "none")
                ELSE /\ player' = p1
                     /\ Observe("mission_post", -1, <<>>, "none")
             /\ i' = i + 1
             /\ pc' = "mission_loop"
             /\ UNCHANGED survived_missions
  /\ difficulty' = 0
  /\ enemy_hp' = 0
  /\ headshot_checks' = 0
  /\ UNCHANGED <<missions, dispatched, encounter, success>>
  /\ UNCHANGED <<special_vars, survived_home, final_hp, roll_val>>

\* lines 780-783
GameOver ==
  /\ pc = "main_after"
  /\ ~survived_missions \/ ~player.alive
  /\ pc' = "summary"
  /\ Observe("game_over", -1, <<>>, "none")
  /\ UNCHANGED <<player, encounter, success, difficulty, enemy_hp, headshot_checks>>
  /\ UNCHANGED <<campaign_vars, special_vars, main_vars, roll_val>>

\* variant: the game-over branch does not return
Extraction_always ==
  /\ pc = "main_after"
  /\ pc' = "final_resolution"
  /\ Observe("extraction", -1, <<>>, "none")
  /\ UNCHANGED <<player, encounter, success, difficulty, enemy_hp, headshot_checks>>
  /\ UNCHANGED <<campaign_vars, special_vars, main_vars, roll_val>>

\* line 786: main() calls final_resolution
Extraction ==
  /\ pc = "main_after"
  /\ ~(~survived_missions \/ ~player.alive)
  /\ pc' = "final_resolution"
  /\ Observe("extraction", -1, <<>>, "none")
  /\ UNCHANGED <<player, encounter, success, difficulty, enemy_hp, headshot_checks>>
  /\ UNCHANGED <<campaign_vars, special_vars, main_vars, roll_val>>

\* lines 702-717
FinalResolution ==
  /\ pc = "final_resolution"
  /\ \E v \in 1..100 :
       /\ roll_val' = IF observed THEN v ELSE roll_val
       /\ IF final_outcome(v) = "home"
          THEN /\ survived_home' = TRUE
               /\ UNCHANGED player
          ELSE /\ survived_home' = FALSE
               /\ player' = [player EXCEPT !.alive = FALSE]
  /\ pc' = "summary"
  /\ Observe("final_resolution", -1, <<>>, "none")
  /\ UNCHANGED <<encounter, success, difficulty, enemy_hp, headshot_checks>>
  /\ UNCHANGED <<campaign_vars, special_vars, survived_missions, final_hp>>

\* lines 719-735
Summary ==
  /\ pc = "summary"
  /\ final_hp' = Max(0, player.hp)
  /\ pc' = "done"
  /\ Observe("summary", -1, <<>>, "none")
  /\ UNCHANGED <<player, encounter, success, difficulty, enemy_hp, headshot_checks>>
  /\ UNCHANGED <<campaign_vars, special_vars, survived_missions, survived_home, roll_val>>

Next ==
  \/ Dispatch
  \/ SequenceReturn
  \/ Reprompt
  \/ ChooseValueError
  \/ VillageCheckpoint
  \/ MountainPass
  \/ AbandonedBase
  \/ NightRaze
  \/ ConvoyAmbush
  \/ CombatStart
  \/ RoundPrompt
  \/ CombatRound
  \/ CombatEnd
  \/ MissionPost
  \/ GameOver
  \/ Extraction
  \/ FinalResolution
  \/ Summary

Spec == Init /\ [][Next]_vars

\* ------------------------------------------------- the last mission, observed
\* sequences of at most n looted items
Looted(n) ==
  LET RECURSIVE upto(_)
      upto(k) == IF k = 0 THEN {<<>>}
                 ELSE upto(k - 1) \cup {Append(q, x) : q \in upto(k - 1), x \in LootTable}
  IN upto(n)

\* The players a campaign can have after n missions that all reported
\* success: any hit points left, at most one looted item per mission, and
\* the one-shot ability of the role spent or not.
PlayersAfter(n) ==
  {[NewPlayer(role_name) EXCEPT
      !.hp = h,
      !.inventory = @ \o extra,
      !.mission_heals = IF role_name = "Medic" /\ ~spent THEN 1 ELSE 0,
      !.sniper_special_used = (role_name = "Sniper" /\ spent),
      !.missions_completed = n] :
     role_name \in RoleNames, h \in 1..MaxHP, extra \in Looted(Min(n, MaxExtra)),
     spent \in BOOLEAN}

SpentMedic(p) == IF p.role = "Medic" /\ p.mission_heals = 0 THEN 1 ELSE 0
SpentSniper(p) == IF p.sniper_special_used THEN 1 ELSE 0

\* play_mission_sequence at the head of its last iteration
InitMission ==
  /\ pc = "mission_loop"
  /\ missions = MaxExtra + 1
  /\ i = missions
  /\ dispatched = i - 1
  /\ player \in PlayersAfter(i - 1)
  /\ medic_special_uses = SpentMedic(player)
  /\ sniper_special_uses = SpentSniper(player)
  /\ survived_missions = FALSE
  /\ observed = TRUE
  /\ echo = FALSE
  /\ Idle

NextMission ==
  \/ Dispatch
  \/ SequenceReturn
  \/ Reprompt
  \/ ChooseValueError
  \/ VillageCheckpoint
  \/ MountainPass
  \/ AbandonedBase
  \/ NightRaze
  \/ ConvoyAmbush
  \/ CombatStart
  \/ RoundPrompt
  \/ CombatRound
  \/ CombatEnd
  \/ MissionPost
  \/ GameOver
  \/ Extraction

SpecMission == InitMission /\ [][NextMission]_vars

\* ------------------------------------------------ the first mission, observed
\* a campaign of one mission, from Player construction
InitFirst ==
  /\ pc = "mission_loop"
  /\ \E role_name \in RoleNames : player = NewPlayer(role_name)
  /\ missions = 1
  /\ i = 1
  /\ dispatched = 0
  /\ medic_special_uses = 0
  /\ sniper_special_uses = 0
  /\ survived_missions = FALSE
  /\ observed = TRUE
  /\ echo = TRUE
  /\ Idle

SpecFirst == InitFirst /\ [][NextMission]_vars

\* ------------------------------------------------ the extraction, observed
\* main() about to call final_resolution after a campaign of MaxExtra + 1
\* missions
InitFinal ==
  /\ pc = "final_resolution"
  /\ missions = MaxExtra + 1
  /\ i = missions + 1
  /\ dispatched = missions
  /\ player \in PlayersAfter(missions)
  /\ medic_special_uses = SpentMedic(player)
  /\ sniper_special_uses = SpentSniper(player)
  /\ survived_missions = TRUE
  /\ observed = TRUE
  /\ echo = FALSE
  /\ Idle /\ success = FALSE

NextFinal ==
  \/ FinalResolution
  \/ Summary

SpecFinal == InitFinal /\ [][NextFinal]_vars

\* ================================================================ claims
InMission == pc \in {"encounter", "combat_start", "combat_loop", "combat_prompt",
                     "mission_post"}
AfterSequence == pc \in {"main_after", "final_resolution", "summary", "done"}

\* C1: monotonic death -- once the alive flag is false, no later step of the
\* run (heal, special, Med Pack, rest, mission continuation, final
\* resolution) sets it back to true.
C1_MonotonicDeath == [][~player.alive => ~player'.alive]_vars

\* a player who fell before the last mission, after the run went on to its end
C1_Witness == pc = "done" /\ ~player.alive /\ player.hp > 0 /\ dispatched < missions

C3_HpCap ==
  /\ player.hp <= 3
  /\ pc = "done" => (final_hp = Max(0, player.hp) /\ final_hp \in 0..3)

\* a Medic who healed in combat ends the run with full hit points
C3_Witness == pc = "done" /\ final_hp = 3 /\ medic_special_uses = 1

\* C4 (as claimed): in Mountain Pass option 0, when the sniper-fire roll
\* succeeds the resolver enters combat at difficulty 2; Rations are appended
\* and true returned without combat only when that roll fails.
C4_SniperFireLeadsToCombat ==
  (op = "mountain_pass" /\ choice = 0 /\ Rolled(rolls, "sniper_fire")) =>
     IF RolledHit(rolls, "sniper_fire")
     THEN pc = "combat_start" /\ difficulty = 2
     ELSE pc = "mission_post" /\ success

\* C5 (as claimed): a Special/Item round in which nothing applied makes no
\* player shooting roll and leaves enemy hp unchanged.
C5_FailedSpecialDoesNotShoot ==
  [][(pc = "combat_prompt" /\ op' = "combat_round" /\ choice' = 5 /\ effect' = "none") =>
       (~Rolled(rolls', "shot") /\ enemy_hp' = enemy_hp)]_vars

\* C6: every combat evaluates the instant-fatal-headshot check exactly once,
\* before the first round; when it fires the player dies, combat returns
\* false, no round is played, enemy hp is never assigned, and hp, inventory
\* and the ability counters are unchanged.
C6_HeadshotCheckedOnce ==
  /\ [](/\ pc = "combat_start" => headshot_checks = 0
        /\ pc \in {"combat_loop", "combat_prompt"} => headshot_checks = 1
        /\ (pc = "mission_post" /\ op \in {"combat_start", "combat_round", "combat_end"})
             => headshot_checks = 1
        /\ op # "combat_start" => ~Rolled(rolls, "headshot"))
  /\ [][(pc = "combat_start" /\ RolledHit(rolls', "headshot")) =>
          /\ player' = [player EXCEPT !.alive = FALSE]
          /\ ~player'.alive
          /\ pc' = "mission_post" /\ ~success'
          /\ enemy_hp' = 0
          /\ UNCHANGED special_vars]_vars
  /\ [][(pc = "mission_post" /\ op = "combat_start") => pc' \in {"main_after"}]_vars

\* the check fired on a wounded player who carries loot
C6_Witness ==
  /\ op = "combat_start" /\ RolledHit(rolls, "headshot")
  /\ pc = "mission_post"
  /\ player.hp = 2 /\ Len(player.inventory) > 2

\* C7: final_resolution is executed only after all N missions were
\* dispatched with the player alive; a run in which the player dies during
\* a mission never executes it and goes directly to the summary.
C7_FinalOnlyAfterSurvival ==
  /\ [](pc = "final_resolution" =>
          (dispatched = missions /\ i = missions + 1 /\ player.alive /\ survived_missions))
  /\ [][(~player.alive /\ pc # "final_resolution") => pc' # "final_resolution"]_vars
  /\ [][(pc = "main_after" /\ ~player.alive) => pc' = "summary"]_vars

\* the extraction of a campaign of several missions is about to be resolved
C7_Witness == pc = "final_resolution" /\ missions >= 2 /\ player.missions_completed = missions

\* C8: final_resolution maps the draws 1..10 and 56..100 to death (alive
\* false, returns false) and 11..55 to a safe return (returns true, alive
\* unchanged): 10, 45 and 45 of the 100 values; hp and inventory never change.
C8_FinalResolutionDraw ==
  /\ [](/\ Cardinality({v \in 1..100 : final_outcome(v) = "instant_death"}) = 10
        /\ Cardinality({v \in 1..100 : final_outcome(v) = "home"}) = 45
        /\ Cardinality({v \in 1..100 : final_outcome(v) = "injuries"}) = 45)
  /\ [][pc = "final_resolution" =>
          /\ roll_val' \in 1..100
          /\ (roll_val' \in (1..10) \cup (56..100)) =>
                (player' = [player EXCEPT !.alive = FALSE] /\ ~survived_home')
          /\ (roll_val' \in 11..55) => (player' = player /\ survived_home')]_vars

\* the last value that still brings the player home
C8_Witness == op = "final_resolution" /\ roll_val = 55 /\ survived_home /\ player.alive

\* C9: a player with hp = 1 who takes 1 damage has hp = 0 and is dead; from
\* then on no round is played, nothing is looted or healed, no encounter is
\* dispatched, and combat, encounter and campaign report failure.
C9_LastHitPoint ==
  /\ [][(player.hp = 1 /\ player'.hp < 1) => (player'.hp = 0 /\ ~player'.alive)]_vars
  /\ [](player.hp <= 0 =>
          /\ ~player.alive
          /\ pc \notin {"combat_prompt", "encounter", "mission_loop", "final_resolution"}
          /\ pc = "mission_post" => ~success
          /\ AfterSequence => ~survived_missions)
  /\ [][player.hp <= 0 => (player' = player /\ dispatched' = dispatched)]_vars

\* the last hit point was lost in a resolver, outside combat
C9_Witness == pc = "mission_post" /\ player.hp = 0 /\ difficulty = 0 /\ ~success

\* C10: encounters are dispatched one after another, at most N of them; after
\* a death nothing more is dispatched, missions_completed is not incremented
\* and the campaign returns failure; missions_completed grows by exactly one
\* per encounter that reported success, so missions_completed <= dispatched
\* <= N; the campaign returns success only after N dispatches with the
\* player alive.
C10_CampaignCounts ==
  /\ [](/\ player.missions_completed <= dispatched /\ dispatched <= missions
        /\ InMission => dispatched = i
        /\ pc = "mission_loop" => dispatched = i - 1
        /\ (pc = "main_after" /\ survived_missions) => (dispatched = missions /\ player.alive)
        /\ (pc = "main_after" /\ ~player.alive) => ~survived_missions)
  /\ [][~player.alive => (dispatched' = dispatched
                          /\ player'.missions_completed = player.missions_completed)]_vars
  /\ [][player'.missions_completed = player.missions_completed
          + (IF pc = "mission_post" /\ player.alive /\ success THEN 1 ELSE 0)]_vars

\* a campaign of several missions returned success
C10_Witness == pc = "main_after" /\ survived_missions /\ missions >= 2

\* steps of combat_encounter, from its call to its return
InCombat == pc \in {"combat_start", "combat_loop", "combat_prompt"}

\* C11: Checkpoint option 2 (force entry), for every role and inventory,
\* makes no roll and changes nothing before it calls combat at difficulty 3;
\* combat is entered once per encounter and what it returns is what the
\* campaign receives.
C11_ForceEntry ==
  /\ [][(pc = "encounter" /\ encounter = "village_checkpoint"
          /\ op' = "village_checkpoint" /\ choice' = 2) =>
          /\ pc' = "combat_start" /\ difficulty' = 3
          /\ rolls' = <<>>
          /\ player' = player
          /\ UNCHANGED <<success, enemy_hp, headshot_checks, special_vars, campaign_vars>>]_vars
  /\ [](/\ pc = "combat_start" => (headshot_checks = 0 /\ op \in ENCOUNTERS)
        /\ InMission => headshot_checks <= 1)
  /\ [][InCombat => (InCombat' \/ pc' \in {"mission_post", "crashed"})]_vars

\* a wounded Engineer with loot has forced the checkpoint
C11_Witness ==
  /\ pc = "combat_start" /\ op = "village_checkpoint" /\ choice = 2
  /\ player.role = "Engineer" /\ player.hp = 1 /\ Len(player.inventory) > 2

\* C12: Abandoned Base option 1 (perimeter sweep) returns true, appends
\* exactly one "Handful of Ammo", changes neither hp nor alive, makes no roll
\* and calls no combat; a campaign of one mission that took it ends with
\* missions_completed = 1 and reports success.
C12_PerimeterSweep ==
  /\ [][(pc = "encounter" /\ encounter = "abandoned_base"
          /\ op' = "abandoned_base" /\ choice' = 1) =>
          /\ player' = [player EXCEPT !.inventory = Append(@, "Handful of Ammo")]
          /\ rolls' = <<>>
          /\ pc' = "mission_post" /\ success'
          /\ UNCHANGED <<difficulty, enemy_hp, headshot_checks>>]_vars
  /\ [](Has(player.inventory, "Handful of Ammo") =>
          /\ Count(player.inventory, "Handful of Ammo") = 1
          /\ Len(player.inventory) = Len(ROLES[player.role].inventory) + 1
          /\ player.hp = MaxHP /\ player.alive
          /\ ~InCombat /\ headshot_checks = 0
          /\ pc = "mission_post" => (success /\ player.missions_completed = 0)
          /\ pc \in {"mission_loop", "main_after", "final_resolution"} =>
               player.missions_completed = 1
          /\ pc \in {"main_after", "final_resolution"} => survived_missions)

\* the one-mission campaign of a sweep has returned success to main()
C12_Witness ==
  /\ pc = "main_after" /\ missions = 1 /\ survived_missions
  /\ Has(player.inventory, "Handful of Ammo") /\ player.missions_completed = 1

\* C13: a Sniper in Mountain Pass option 0 rolls 50% first; when that roll
\* succeeds the resolver returns true with the player unchanged, after no
\* other roll and without combat.
C13_SharpEyes ==
  /\ [][(pc = "encounter" /\ encounter = "mountain_pass"
          /\ op' = "mountain_pass" /\ choice' = 0) =>
          /\ Rolled(rolls', "sharp_eyes") <=> player.role = "Sniper"
          /\ player.role = "Sniper" => rolls'[1].name = "sharp_eyes" /\ rolls'[1].pct = 50
          /\ RolledHit(rolls', "sharp_eyes") =>
               /\ Len(rolls') = 1
               /\ player' = player
               /\ pc' = "mission_post" /\ success'
               /\ UNCHANGED <<difficulty, enemy_hp, headshot_checks>>]_vars

\* a wounded Sniper has crossed on sharp eyes
C13_Witness ==
  /\ op = "mountain_pass" /\ choice = 0 /\ RolledHit(rolls, "sharp_eyes")
  /\ pc = "mission_post" /\ player.hp = 1


\* C14: for d in 1..3 and the accuracy bonuses of the roles (0, 15, -5, -2,
\* -1) the hit chance of a shooting action before clamping is
\* 50 + accuracy_bonus - 5d, +5 for center, -5 for left, -2 for right, and
\* the chance rolled is that value clamped into [5,95].
C14_HitChance ==
  /\ []({ROLES[rn].accuracy_bonus : rn \in RoleNames} = {0, 15, -5, -2, -1})
  /\ [](/\ player.accuracy_bonus = ROLES[player.role].accuracy_bonus
        /\ InCombat => difficulty \in 1..3)
  /\ [][(pc = "combat_prompt" /\ op' = "combat_round" /\ choice' \in 0..2) =>
          LET before == 50 + player.accuracy_bonus - 5 * difficulty
                          + <<-5, 5, -2>>[choice' + 1]
          IN /\ base_hit_chance(player, difficulty, choice') = before
             /\ rolls'[1].name = "shot" /\ NumRolled(rolls', "shot") = 1
             /\ rolls'[1].pct = (IF before < 5 THEN 5 ELSE IF before > 95 THEN 95 ELSE before)
             /\ rolls'[1].pct \in 5..95]_vars
  /\ [](pc = "combat_start" =>
          \A b \in {-60, -41, -40, -31, 0, 37, 42, 60}, d \in 1..3, a \in 0..2 :
            LET before == 50 + b - 5 * d + <<-5, 5, -2>>[a + 1]
            IN hit_chance([accuracy_bonus |-> b], d, a) =
                 (IF before < 5 THEN 5 ELSE IF before > 95 THEN 95 ELSE before))

\* a Sniper shot center at difficulty 1: the highest chance of the catalog
C14_Witness ==
  /\ op = "combat_round" /\ choice = 1 /\ player.role = "Sniper" /\ difficulty = 1
  /\ rolls[1] = R("shot", 65, TRUE)

\* C15 (as claimed): choose() returns only an index below the number of
\* options, and every line it does not accept is followed by the same
\* prompt, with the player and everything else unchanged and no roll made.
C15_InvalidInputReprompted ==
  /\ [](/\ op \in ENCOUNTERS => choice \in 0..2
        /\ op = "combat_round" => choice \in 0..5)
  /\ [][(Prompting /\ typed' # <<>>) =>
          /\ pc' = pc
          /\ player' = player
          /\ rolls' = <<>>
          /\ UNCHANGED <<encounter, success, difficulty, enemy_hp, headshot_checks>>
          /\ UNCHANGED <<campaign_vars, special_vars, main_vars>>]_vars

\* C16 (as claimed): when the round loop ends with enemy hp <= 0 the player
\* is alive and combat returns true, whatever action brought the enemy down.
C16_EnemyDownIsVictory ==
  /\ (pc = "combat_loop" /\ enemy_hp <= 0) => player.alive
  /\ (pc = "mission_post" /\ op = "combat_end" /\ enemy_hp <= 0) => success

\* C17: a Special/Item action applies the first available of: Medic heal
\* (charge left; heal 1 capped at 3, charge consumed), Sniper shot (unused;
\* enemy hp 0, flag set), Med Pack (held; heal 1, one pack removed), Assault
\* Rifle burst (held; 60% roll, enemy hp 0), and nothing below it; after an
\* applied effect the round only makes one counterattack roll of 40 + 10d
\* for 1 damage, and only if the enemy is still alive.
C17_SpecialPriority ==
  [][(pc = "combat_prompt" /\ op' = "combat_round" /\ choice' = 5) =>
       LET medic == player.role = "Medic" /\ player.mission_heals > 0
           sniper == ~medic /\ player.role = "Sniper" /\ ~player.sniper_special_used
           pack == ~medic /\ ~sniper /\ Has(player.inventory, "Med Pack")
           rifle == ~medic /\ ~sniper /\ ~pack /\ Has(player.inventory, "Assault Rifle")
           burst == rifle /\ RolledHit(rolls', "burst")
           healed == IF player.hp + 1 > 3 THEN 3 ELSE player.hp + 1
           \* the player and the enemy after the effect, before the counterattack
           q == CASE medic -> [player EXCEPT !.hp = healed, !.mission_heals = @ - 1]
                  [] sniper -> [player EXCEPT !.sniper_special_used = TRUE]
                  [] pack -> [player EXCEPT !.hp = healed,
                                            !.inventory = Remove(player.inventory, "Med Pack")]
                  [] OTHER -> player
           e == IF sniper \/ burst THEN 0 ELSE enemy_hp
           pre == IF rifle THEN 1 ELSE 0
       IN /\ effect' = (CASE medic -> "medic_heal" [] sniper -> "sniper_shot"
                          [] pack -> "med_pack" [] burst -> "rifle_burst" [] OTHER -> "none")
          /\ Rolled(rolls', "burst") <=> rifle
          /\ rifle => (rolls'[1].name = "burst" /\ rolls'[1].pct = 60)
          /\ effect' # "none" =>
               /\ enemy_hp' = e
               /\ pc' = "combat_loop"
               /\ IF e > 0
                  THEN /\ Len(rolls') = pre + 1
                       /\ rolls'[pre + 1].name = "retaliation"
                       /\ rolls'[pre + 1].pct = 40 + 10 * difficulty
                       /\ player' = IF rolls'[pre + 1].hit
                                    THEN [q EXCEPT !.hp = @ - 1, !.alive = q.hp - 1 > 0]
                                    ELSE q
                  ELSE Len(rolls') = pre /\ player' = q]_vars

\* a Medic with the charge and a Med Pack healed and kept the pack
C17_Witness ==
  /\ op = "combat_round" /\ choice = 5 /\ effect = "medic_heal"
  /\ player.mission_heals = 0
  /\ Has(player.inventory, "Med Pack") /\ Rolled(rolls, "retaliation")

\* C18: Flee rolls 30 - 5d; on success combat returns true at once with
\* enemy hp, the player and the inventory unchanged and no loot roll; on
\* failure the round ends after one parting-shot roll of 10 + 10d for 1
\* damage, with no player shot and no enemy counterattack.
C18_Flee ==
  /\ [][(pc = "combat_prompt" /\ op' = "combat_round" /\ choice' = 4) =>
          /\ rolls'[1].name = "flee" /\ rolls'[1].pct = 30 - 5 * difficulty
          /\ enemy_hp' = enemy_hp /\ effect' = "none"
          /\ IF rolls'[1].hit
             THEN /\ Len(rolls') = 1
                  /\ player' = player
                  /\ pc' = "mission_post" /\ success'
             ELSE /\ Len(rolls') = 2
                  /\ rolls'[2].name = "parting_shot" /\ rolls'[2].pct = 10 + 10 * difficulty
                  /\ player' = IF rolls'[2].hit
                               THEN [player EXCEPT !.hp = @ - 1, !.alive = player.hp - 1 > 0]
                               ELSE player
                  /\ pc' = "combat_loop"]_vars
  /\ [][(pc = "mission_post" /\ op = "combat_round") =>
          (~Rolled(rolls', "loot") /\ player'.inventory = player.inventory)]_vars

\* the player got away from a hard fight with the enemy standing
C18_Witness ==
  /\ op = "combat_round" /\ choice = 4 /\ rolls = <<R("flee", 15, TRUE)>>
  /\ pc = "mission_post" /\ success /\ enemy_hp > 0

\* C19: a shot of action 0, 1 or 2 deals 1 damage, or 2 with an Assault
\* Rifle; when it brings enemy hp to 0 or below no counterattack roll is made
\* in that round, the player is unchanged by it, and the combat returns true.
C19_KillSkipsCounterattack ==
  /\ [][(pc = "combat_prompt" /\ op' = "combat_round" /\ choice' \in 0..2) =>
          /\ enemy_hp - enemy_hp' =
               (IF ~RolledHit(rolls', "shot") THEN 0
                ELSE IF RolledHit(rolls', "rifle_damage") THEN 2 ELSE 1)
          /\ Rolled(rolls', "rifle_damage") <=>
               (RolledHit(rolls', "shot") /\ Has(player.inventory, "Assault Rifle"))
          /\ enemy_hp' <= 0 =>
               /\ ~Rolled(rolls', "dodge") /\ ~Rolled(rolls', "enemy_hit")
               /\ ~Rolled(rolls', "lethal")
               /\ player' = player
               /\ pc' = "combat_loop"]_vars
  /\ [][(pc = "combat_loop" /\ op = "combat_round" /\ choice \in 0..2 /\ enemy_hp <= 0) =>
          /\ pc' = "mission_post" /\ success'
          /\ player'.alive /\ player'.hp = player.hp]_vars

\* a rifle shot of 2 damage brought down an enemy with 1 hit point left
C19_Witness ==
  /\ op = "combat_round" /\ choice \in 0..2 /\ RolledHit(rolls, "rifle_damage")
  /\ pc = "combat_loop" /\ enemy_hp = -1 /\ player.hp = 1

\* C20: during a combat the inventory changes only when a Med Pack is used
\* (held before; its count drops by one, the other items keep their places)
\* and when, the enemy defeated and the player alive, the loot roll of
\* 50 + 10d appends one item of {Ammo, Med Pack, Intel Documents, Assault
\* Rifle, Rations}; a flee, a headshot or a death appends nothing.
C20_CombatInventory ==
  /\ [][InCombat =>
          \/ player'.inventory = player.inventory
          \/ /\ op' = "combat_round" /\ choice' = 5 /\ effect' = "med_pack"
             /\ \E k \in 1..Len(player.inventory) :
                  /\ player.inventory[k] = "Med Pack"
                  /\ player'.inventory = SubSeq(player.inventory, 1, k - 1)
                                           \o SubSeq(player.inventory, k + 1, Len(player.inventory))
             /\ Count(player'.inventory, "Med Pack") = Count(player.inventory, "Med Pack") - 1
          \/ /\ op' = "combat_end" /\ pc = "combat_loop" /\ pc' = "mission_post"
             /\ enemy_hp <= 0 /\ player.alive /\ success'
             /\ rolls' = <<R("loot", 50 + 10 * difficulty, TRUE)>>
             /\ \E x \in {"Ammo", "Med Pack", "Intel Documents", "Assault Rifle", "Rations"} :
                  player'.inventory = Append(player.inventory, x)]_vars
  /\ [][(InCombat /\ op' = "combat_round" /\ effect' = "med_pack") =>
          Len(player'.inventory) = Len(player.inventory) - 1]_vars
  /\ [][(InCombat /\ pc' = "mission_post" /\ op' # "combat_end") =>
          player'.inventory = player.inventory]_vars
  /\ [][(InCombat /\ ~player'.alive) => player'.inventory = player.inventory]_vars
  /\ [][pc = "mission_post" => player'.inventory = player.inventory]_vars

\* one of two Med Packs was used
C20_Witness ==
  /\ op = "combat_round" /\ effect = "med_pack"
  /\ Count(player.inventory, "Med Pack") = 1 /\ pc = "combat_loop"

\* C21: in the counterattack after a shooting round that leaves the enemy
\* alive, only a Soldier rolls the 20% dodge, and a dodge ends the round with
\* the player unchanged and no enemy-hit roll; otherwise one enemy-hit roll
\* of 40 + 15d is made; on a hit the 3% lethal roll follows: if it fires the
\* player dies with hp unchanged and combat returns false, with no loot,
\* else 1 damage is applied; on a miss the player is unchanged.
C21_Counterattack ==
  /\ [][(pc = "combat_prompt" /\ op' = "combat_round" /\ choice' \in 0..2 /\ enemy_hp' > 0) =>
          LET at(n) == CHOOSE k \in 1..Len(rolls') : rolls'[k].name = n
              dodged == RolledHit(rolls', "dodge")
              hit == RolledHit(rolls', "enemy_hit")
              lethal == RolledHit(rolls', "lethal")
          IN /\ Rolled(rolls', "dodge") <=> player.role = "Soldier"
             /\ Rolled(rolls', "dodge") =>
                  (rolls'[at("dodge")].pct = 20 /\ NumRolled(rolls', "dodge") = 1)
             /\ Rolled(rolls', "enemy_hit") <=> ~dodged
             /\ ~dodged => /\ NumRolled(rolls', "enemy_hit") = 1
                           /\ rolls'[at("enemy_hit")].pct = 40 + 15 * difficulty
             /\ Rolled(rolls', "lethal") <=> hit
             /\ hit => (rolls'[at("lethal")].pct = 3 /\ NumRolled(rolls', "lethal") = 1)
             /\ player' = (IF lethal THEN [player EXCEPT !.alive = FALSE]
                           ELSE IF hit THEN [player EXCEPT !.hp = @ - 1,
                                                           !.alive = player.hp - 1 > 0]
                           ELSE player)
             /\ IF lethal THEN pc' = "mission_post" /\ ~success'
                          ELSE pc' = "combat_loop"]_vars
  /\ [][(pc = "mission_post" /\ ~player.alive) =>
          (player' = player /\ rolls' = <<>> /\ pc' = "main_after")]_vars

\* a lethal hit on a Soldier with full hit points whose dodge roll failed
C21_Witness ==
  /\ op = "combat_round" /\ choice \in 0..2 /\ RolledHit(rolls, "lethal")
  /\ Rolled(rolls, "dodge")
  /\ pc = "mission_post" /\ ~player.alive /\ player.hp = 3 /\ ~success

\* C22: after a mission the 30% rest roll is made if and only if the player
\* is alive and a Medic; when it succeeds hp becomes min(3, hp + 1); the
\* step changes nothing else of the player but missions_completed (not the
\* heal charge, the inventory or the alive flag), and the roll is made
\* nowhere else.
C22_MedicRest ==
  /\ [][pc = "mission_post" =>
          /\ Rolled(rolls', "rest") <=> (player.alive /\ player.role = "Medic")
          /\ Rolled(rolls', "rest") => (Len(rolls') = 1 /\ rolls'[1].pct = 30)
          /\ player' = [player EXCEPT
                          !.missions_completed =
                             @ + (IF player.alive /\ success THEN 1 ELSE 0),
                          !.hp = IF RolledHit(rolls', "rest")
                                 THEN (IF @ + 1 > 3 THEN 3 ELSE @ + 1)
                                 ELSE @]]_vars
  /\ [](op # "mission_post" => ~Rolled(rolls, "rest"))

\* a wounded Medic who keeps the heal charge and carries loot recovered a
\* hit point while resting
C22_Witness ==
  /\ op = "mission_post" /\ RolledHit(rolls, "rest")
  /\ player.hp = 2 /\ player.mission_heals = 1 /\ Len(player.inventory) > 2

\* C23: in Mountain Pass option 1 and Convoy Ambush option 2 a player who
\* holds "Encrypted Radio" or is an Intelligence Officer gets true with no
\* roll, no combat and the player unchanged; every other player enters
\* combat at difficulty 2, unchanged and with no roll, and what the combat
\* returns is what the campaign receives.
C23_RadioBranches ==
  /\ [][(/\ pc = "encounter"
         /\ \/ encounter = "mountain_pass" /\ op' = "mountain_pass" /\ choice' = 1
            \/ encounter = "convoy_ambush" /\ op' = "convoy_ambush" /\ choice' = 2) =>
          /\ rolls' = <<>>
          /\ player' = player
          /\ UNCHANGED <<enemy_hp, headshot_checks, special_vars, campaign_vars>>
          /\ IF \/ \E k \in 1..Len(player.inventory) : player.inventory[k] = "Encrypted Radio"
                \/ player.role = "Intelligence Officer"
             THEN pc' = "mission_post" /\ success' /\ difficulty' = 0
             ELSE pc' = "combat_start" /\ difficulty' = 2 /\ UNCHANGED success]_vars
  /\ [][InCombat => (InCombat' \/ pc' \in {"mission_post", "crashed"})]_vars
  /\ [](player.role = "Intelligence Officer" =>
          \E k \in 1..Len(player.inventory) : player.inventory[k] = "Encrypted Radio")

\* a wounded Intelligence Officer called in the airstrike
C23_Witness ==
  /\ op = "convoy_ambush" /\ choice = 2 /\ player.role = "Intelligence Officer"
  /\ pc = "mission_post" /\ success /\ player.hp = 1

\* C24: in every reachable state hp is an integer in 0..3 (never negative:
\* every damage is 1 and is dealt to a living player), and alive implies
\* hp >= 1; a dead player may still have hit points.
C24_HpRange ==
  /\ player.hp \in 0..3
  /\ player.alive => player.hp >= 1

\* a player killed outright in a mission, with two hit points left
C24_Witness == pc = "mission_post" /\ ~player.alive /\ player.hp = 2 /\ ~success

\* C25: an encounter (resolver or combat) returns true if and only if the
\* player is alive when it returns, so no mission fails with the player
\* alive, and when the campaign returns success missions_completed equals
\* the number of missions asked for.
C25_SuccessIffAlive ==
  /\ pc = "mission_post" => (success <=> player.alive)
  /\ (pc = "main_after" /\ survived_missions) => player.missions_completed = missions
  /\ pc = "final_resolution" => player.missions_completed = missions
  /\ pc = "mission_loop" => player.missions_completed = i - 1

\* a campaign of two missions returned success to main() with a player who
\* lost hit points on the way
C25_Witness ==
  /\ pc = "main_after" /\ survived_missions
  /\ missions = 2 /\ player.missions_completed = 2 /\ player.hp = 1

====
